---- MODULE Spec2Model ----
(***************************************************************************)
(* Model of the Cairo Genizah search repository: the corpus parser         *)
(* (parser.py), the SQLite store (db.py), the index builder (indexer.py)   *)
(* and the searcher with its query modes (searcher.py), with the uses the  *)
(* web application (app.py) and the command line (cli.py) make of it.      *)
(*                                                                         *)
(* Text is modelled as a sequence of characters, each character a string   *)
(* of length one; glyphs outside ASCII are named by their code point.      *)
(***************************************************************************)
EXTENDS Integers, Sequences, FiniteSets, TLC

\* ------------------------------------------------------------------ bounds
\* Longest corpus, in lines, drawn by the parser specification.
MaxParseLines == 3
\* Longest corpus, in lines, drawn by the build specification.
MaxBuildLines == 4
\* Number of build_index calls on the same index location.
MaxBuilds == 2
\* Largest number of documents in the index a searcher is opened on.
MaxIndexDocs == 3
\* Largest limit passed to a query.
MaxLimit == 2
\* Number of INSERT statements run on the store connection.
MaxInserts == 3
\* Documents per committed batch.  indexer.py:94 commits when
\* doc_count % 1000 == 0; the modulus is scaled down so that a corpus of a
\* few documents crosses a batch boundary.
BatchSize == 2

\* ------------------------------------------------------------- characters
ARROW == "U+2192"
LBRACKET2 == "U+27E6"
RBRACKET2 == "U+27E7"
NL == "\n"

\* An optional value: None, or Some(x) whose value is Some(x)[1].
None == <<>>
Some(x) == <<x>>

\* Characters matched by \s in a regular expression and removed by str.strip().
Whitespace == {" ", "\t", NL}

\* Characters matched by \d.
Digits == {"0", "1", "2", "3", "4", "5", "6", "7", "8", "9"}

IsBlank(s) == \A i \in 1..Len(s) : s[i] \in Whitespace

\* s[from..] as a sequence (empty when from > Len(s)).
Tail_from(s, from) == SubSeq(s, from, Len(s))

\* str.startswith at offset: s[at .. at+Len(p)-1] = p.
HasAt(s, at, p) ==
    /\ at >= 1
    /\ at + Len(p) - 1 <= Len(s)
    /\ SubSeq(s, at, at + Len(p) - 1) = p

\* str.rstrip("\n"): drop every trailing newline character.
RECURSIVE rstrip_nl(_)
rstrip_nl(s) ==
    IF Len(s) > 0 /\ s[Len(s)] = NL THEN rstrip_nl(SubSeq(s, 1, Len(s) - 1)) ELSE s

\* str.strip(): drop leading and trailing whitespace.
RECURSIVE lstrip(_)
lstrip(s) ==
    IF Len(s) > 0 /\ s[1] \in Whitespace THEN lstrip(Tail(s)) ELSE s

RECURSIVE rstrip(_)
rstrip(s) ==
    IF Len(s) > 0 /\ s[Len(s)] \in Whitespace THEN rstrip(SubSeq(s, 1, Len(s) - 1)) ELSE s

strip(s) == rstrip(lstrip(s))

\* "\n".join(lines)
RECURSIVE join_nl(_)
join_nl(lines) ==
    IF Len(lines) = 0 THEN <<>>
    ELSE IF Len(lines) = 1 THEN lines[1]
    ELSE lines[1] \o <<NL>> \o join_nl(Tail(lines))

\* ------------------------------------------------------------------ parser
HEADER_OPEN == <<"=", "=", ">", " ">>
HEADER_CLOSE == << " ", "<", "=", "=">>

\* Variant of HeaderGroupEnds whose pattern lacks the final \s*$ anchor.
HeaderGroupEnds_Unanchored(s) ==
    { e \in 5..Len(s) :
        /\ HasAt(s, 1, HEADER_OPEN)
        /\ \A i \in 5..e : s[i] # NL
        /\ HasAt(s, e + 1, HEADER_CLOSE) }

\* The end positions e of group 1 for which ^==> (.+?) <==\s*$ matches s:
\* s starts with "==> ", group 1 = s[5..e] is non-empty and holds no
\* newline ('.' does not match one), " <==" follows and only whitespace
\* is left up to the end of the string.
HeaderGroupEnds(s) ==
    { e \in 5..Len(s) :
        /\ HasAt(s, 1, HEADER_OPEN)
        /\ \A i \in 5..e : s[i] # NL
        /\ HasAt(s, e + 1, HEADER_CLOSE)
        /\ IsBlank(Tail_from(s, e + 5)) }

\* DOCUMENT_HEADER_PATTERN.match(s): None, or Some(group(1)).  The group is
\* non-greedy, so the shortest one that lets the rest match is taken.
DOCUMENT_HEADER_PATTERN(s) ==
    IF HeaderGroupEnds(s) = {} THEN None
    ELSE LET e == CHOOSE x \in HeaderGroupEnds(s) : \A y \in HeaderGroupEnds(s) : x <= y
         IN  Some(SubSeq(s, 5, e))

\* re.match(r"^\s+\d+→", line).end(), or 0 when the line does not match:
\* one or more whitespace characters, one or more digits, the arrow.
LineNumberPrefixEnd(line) ==
    LET ends == { e \in 3..Len(line) :
                    /\ line[e] = ARROW
                    /\ \E k \in 1..(e - 2) :
                          /\ \A i \in 1..k : line[i] \in Whitespace
                          /\ \A i \in (k + 1)..(e - 1) : line[i] \in Digits }
    IN  IF ends = {} THEN 0 ELSE CHOOSE e \in ends : TRUE

\* The loop of _create_document that strips the line-number prefix.
StripLine(line) ==
    IF LineNumberPrefixEnd(line) > 0
    THEN Tail_from(line, LineNumberPrefixEnd(line) + 1)
    ELSE line

\* ANNOTATION_PATTERN.search(content): any of the two double brackets, or "][".
ANNOTATION_PATTERN(content) ==
    \E i \in 1..Len(content) :
        \/ content[i] = LBRACKET2
        \/ content[i] = RBRACKET2
        \/ HasAt(content, i, <<"]", "[">>)

\* Variant of NonBlankCount that counts every line.
NonBlankCount_All(lines) == Len(lines)

\* sum(1 for line in lines if line.strip())
RECURSIVE NonBlankCount(_)
NonBlankCount(lines) ==
    IF Len(lines) = 0 THEN 0
    ELSE (IF strip(lines[1]) # <<>> THEN 1 ELSE 0) + NonBlankCount(Tail(lines))

\* Variant of ProcessedLines that never strips.
ProcessedLines_Unstripped(lines, strip_flag) == lines

\* The lines _create_document joins and counts.
ProcessedLines(lines, strip_flag) ==
    IF strip_flag THEN [i \in 1..Len(lines) |-> StripLine(lines[i])] ELSE lines

create_document(doc_id, lines, strip_flag) ==
    LET processed == ProcessedLines(lines, strip_flag)
        content == strip(join_nl(processed))
    IN  [doc_id |-> doc_id,
         content |-> content,
         line_count |-> NonBlankCount(processed),
         has_annotations |-> ANNOTATION_PATTERN(content)]

\* content.split("\n"): the pieces between the newline characters, at least
\* one piece.
RECURSIVE SplitFrom(_, _)
SplitFrom(text, piece) ==
    IF Len(text) = 0 THEN <<piece>>
    ELSE IF text[1] = NL THEN <<piece>> \o SplitFrom(Tail(text), <<>>)
    ELSE SplitFrom(Tail(text), Append(piece, text[1]))

split_nl(text) == SplitFrom(text, <<>>)

\* Document.content_without_line_numbers: the content is split into lines,
\* the line-number prefix of each line that has one is removed, and the
\* lines are joined again.
content_without_line_numbers(content) ==
    join_nl([i \in 1..Len(split_nl(content)) |-> StripLine(split_nl(content)[i])])

\* The lines that iterating the open file yields: every line keeps its
\* newline terminator, except the last one of a file that does not end in one.
FileLines(lines, final_newline) ==
    [i \in 1..Len(lines) |->
        IF i < Len(lines) \/ final_newline THEN lines[i] \o <<NL>> ELSE lines[i]]

\* Variant of ParseLine that gathers the lines before the first header.
ParseLine_KeepsPreamble(st, raw, strip_flag) ==
    LET line == rstrip_nl(raw)
        header_match == DOCUMENT_HEADER_PATTERN(line)
    IN  IF header_match # None
        THEN [doc_id |-> header_match,
              lines |-> IF st.doc_id # None THEN <<>> ELSE st.lines,
              out |-> IF st.doc_id # None
                      THEN Append(st.out, create_document(st.doc_id[1], st.lines, strip_flag))
                      ELSE st.out]
        ELSE [st EXCEPT !.lines = Append(st.lines, line)]

\* Parser loop state: [doc_id, lines, out].  One iteration of the for loop
\* of parse() on one raw line.
ParseLine(st, raw, strip_flag) ==
    LET line == rstrip_nl(raw)
        header_match == DOCUMENT_HEADER_PATTERN(line)
    IN  IF header_match # None
        THEN [doc_id |-> header_match,
              lines |-> <<>>,
              out |-> IF st.doc_id # None
                      THEN Append(st.out, create_document(st.doc_id[1], st.lines, strip_flag))
                      ELSE st.out]
        ELSE IF st.doc_id # None
             THEN [st EXCEPT !.lines = Append(st.lines, line)]
             ELSE st

\* Variant of ParseEnd that forgets the open document.
ParseEnd_DropsLast(st, strip_flag) == st.out

\* The code after the loop: the last open document is yielded.
ParseEnd(st, strip_flag) ==
    IF st.doc_id # None
    THEN Append(st.out, create_document(st.doc_id[1], st.lines, strip_flag))
    ELSE st.out

ParseInit == [doc_id |-> None, lines |-> <<>>, out |-> <<>>]

RECURSIVE ParseFrom(_, _, _, _)
ParseFrom(st, raws, i, strip_flag) ==
    IF i > Len(raws) THEN ParseEnd(st, strip_flag)
    ELSE ParseFrom(ParseLine(st, raws[i], strip_flag), raws, i + 1, strip_flag)

\* list(GenizahParser(file).parse(strip_line_numbers))
parse(raws, strip_flag) == ParseFrom(ParseInit, raws, 1, strip_flag)

\* GenizahParser.count_documents: the pattern is matched on the raw line.
RECURSIVE count_documents(_)
count_documents(raws) ==
    IF Len(raws) = 0 THEN 0
    ELSE (IF DOCUMENT_HEADER_PATTERN(raws[1]) # None THEN 1 ELSE 0)
         + count_documents(Tail(raws))

\* ------------------------------------------------------------------- state
VARIABLES
    \* the transcription file: its lines without terminators (None when the
    \* file does not exist), and whether the last line ends in a newline
    corpus, final_newline,
    strip_line_numbers,
    \* GenizahParser.parse: index of the next line, loop variables, documents
    \* yielded so far, position of the generator
    pos, current_doc_id, current_lines, yielded, parse_pc,
    \* result of GenizahParser.count_documents (None before the call)
    count_result,
    \* whether the transcription file can be opened
    source_readable,
    \* the SQLite file at db_path: whether it exists, and its committed content
    db_file, committed,
    \* the indexer's connection: its view of the database, which includes the
    \* changes of its open transaction, and whether a transaction is open
    working, in_transaction,
    \* build_index: position, local doc_count, the documents its parser
    \* generator yields, the value returned, the exception raised
    build_pc, doc_count, build_docs, returned, raised,
    \* number of build_index calls started; committed content of the database
    \* when the latest call started
    builds, base,
    \* what a concurrent reader on its own connection last read
    reader_view,
    \* the Whoosh index in the index directory (None: no index there), and
    \* the outcome of constructing a GenizahSearcher on that directory
    whoosh_index, searcher,
    \* the latest call on the searcher (None before the first), the list it
    \* returned (for get_document: None or Some(result)), the exception it
    \* raised, and within the call: the stored documents it read and the
    \* documents its regular expression was tested on
    request, results, error, docs_read, docs_tested,
    \* the web application: app.searcher (None while the attribute is not
    \* set), the number of searchers it has constructed, the searcher that
    \* get_searcher returned to the latest request and the exception it
    \* raised
    app_searcher, instances, served, web_error,
    \* the command line: the exit code of the latest run (None before the
    \* first) and what it wrote
    exit_code, echoed

parser_vars == <<corpus, final_newline, strip_line_numbers, pos, current_doc_id,
                 current_lines, yielded, parse_pc, count_result>>

store_vars == <<db_file, committed, working, in_transaction>>

build_vars == <<build_pc, doc_count, build_docs, returned, raised, builds,
                base>>

query_vars == <<request, results, error, docs_read, docs_tested>>

front_vars == <<app_searcher, instances, served, web_error, exit_code, echoed>>

search_vars == <<whoosh_index, searcher, query_vars, front_vars>>

vars == <<parser_vars, source_readable, store_vars, build_vars, reader_view,
          search_vars>>

\* ------------------------------------------------------------------- store
\* index_metadata is a table of (key, value) rows with key as primary key;
\* each key holds None (no row) or Some(value).
EmptyMetadata ==
    [version |-> None, created_at |-> None, document_count |-> None,
     last_updated |-> None]

\* A database file whose tables exist and are empty.
EmptyDatabase ==
    [documents |-> <<>>, documents_fts |-> <<>>, index_metadata |-> EmptyMetadata]

SCHEMA_VERSION == <<"1", ".", "0">>

\* INSERT OR IGNORE INTO index_metadata: the row is written only when the
\* key has none.
InsertOrIgnore(old, value) == IF old = None THEN Some(value) ELSE old

\* GenizahDatabase.initialize_schema: CREATE ... IF NOT EXISTS leaves the
\* existing tables alone; version and created_at are inserted when absent.
initialize_schema(db, now) ==
    [db EXCEPT !.index_metadata =
        [@ EXCEPT !.version = InsertOrIgnore(@, SCHEMA_VERSION),
                  !.created_at = InsertOrIgnore(@, now)]]

\* The rowid SQLite gives a new row: one more than the largest in use.
RECURSIVE MaxRowid(_)
MaxRowid(rows) ==
    IF Len(rows) = 0 THEN 0
    ELSE LET m == MaxRowid(Tail(rows))
         IN  IF rows[1].rowid > m THEN rows[1].rowid ELSE m

\* Variant of ViolatesPrimaryKey for a doc_id column without a key.
ViolatesPrimaryKey_Never(rows, doc_id) == FALSE

\* doc_id TEXT PRIMARY KEY: an INSERT of a stored id violates the constraint.
ViolatesPrimaryKey(rows, doc_id) == \E i \in 1..Len(rows) : rows[i].doc_id = doc_id

\* Trigger documents_ai: AFTER INSERT ON documents, the new row's rowid,
\* doc_id and content are inserted into documents_fts.
documents_ai(fts, new) ==
    Append(fts, [rowid |-> new.rowid, doc_id |-> new.doc_id, content |-> new.content])

\* A Python bool bound to a BOOLEAN column is stored as 0 or 1.
AdaptBool(b) == IF b THEN 1 ELSE 0

\* INSERT INTO documents (doc_id, content, line_count, has_annotations)
\* on a connection whose view is db; created_at takes its default.
InsertDocumentRow(db, doc, now) ==
    LET new == [rowid |-> MaxRowid(db.documents) + 1,
                doc_id |-> doc.doc_id,
                content |-> doc.content,
                line_count |-> doc.line_count,
                has_annotations |-> AdaptBool(doc.has_annotations),
                created_at |-> now]
    IN  [db EXCEPT !.documents = Append(@, new),
                   !.documents_fts = documents_ai(@, new)]

\* str(n) for n >= 0, as a sequence of digit characters.
DigitChars == <<"0", "1", "2", "3", "4", "5", "6", "7", "8", "9">>

RECURSIVE str(_)
str(n) ==
    IF n < 10 THEN <<DigitChars[n + 1]>>
    ELSE str(n \div 10) \o <<DigitChars[(n % 10) + 1]>>

\* int(s) for a sequence of digit characters.
DigitValue(c) == CHOOSE d \in 0..9 : DigitChars[d + 1] = c

RECURSIVE int(_)
int(s) ==
    IF Len(s) = 0 THEN 0
    ELSE 10 * int(SubSeq(s, 1, Len(s) - 1)) + DigitValue(s[Len(s)])

\* Variant of UpdateMetadataRows that omits last_updated.
UpdateMetadataRows_CountOnly(db, count, now) ==
    [db EXCEPT !.index_metadata = [@ EXCEPT !.document_count = Some(str(count))]]

\* The two INSERT OR REPLACE statements of build_index.
UpdateMetadataRows(db, count, now) ==
    [db EXCEPT !.index_metadata =
        [@ EXCEPT !.document_count = Some(str(count)),
                  !.last_updated = Some(now)]]

\* conn.commit(): the connection's view becomes the committed content.
Commit(committed_db, working_db) == working_db

\* Variant of Rollback that leaves the open transaction in place.
Rollback_Keeps(committed_db, working_db) == working_db

\* conn.rollback(): the connection's view returns to the committed content.
Rollback(committed_db, working_db) == committed_db

\* datetime('now') / CURRENT_TIMESTAMP: time advances from one
\* build_index call to the next.
Now(n) == <<"t", n>>

\* whoosh.index.exists_in(index_dir): a Whoosh table of contents is there.
exists_in(ix) == ix # None

\* GenizahSearcher.__init__: FileNotFoundError unless a Whoosh index exists
\* in index_dir, else the index is opened.  The SQLite file that
\* build_index writes is not a Whoosh index.
GenizahSearcher(ix) == IF ~exists_in(ix) THEN "FileNotFoundError" ELSE "open"

\* The stored documents of the Whoosh index a searcher has opened.
StoredDocuments(ix) == IF ix = None THEN <<>> ELSE ix[1].documents

\* GenizahSearcher.get_statistics on an opened index.
get_statistics(ix) ==
    [total_documents |-> Len(StoredDocuments(ix)),
     documents_with_annotations |->
        Cardinality({ i \in 1..Len(StoredDocuments(ix)) :
                        StoredDocuments(ix)[i].has_annotations }),
     index_version |-> IF ix = None THEN -1 ELSE ix[1].generation]

\* Variant of get_document that takes the first id that holds doc_id.
get_document_Partial(docs, doc_id) ==
    LET hits == { i \in 1..Len(docs) :
                    \E at \in 1..(Len(docs[i].doc_id) + 1) :
                        HasAt(docs[i].doc_id, at, doc_id) }
    IN  IF hits = {} THEN None
        ELSE Some(docs[CHOOSE i \in hits : \A j \in hits : i <= j])

\* GenizahSearcher.get_document on an opened index whose stored documents
\* are docs: the first hit of Term("doc_id", doc_id), or None.
get_document(docs, doc_id) ==
    LET hits == { i \in 1..Len(docs) : docs[i].doc_id = doc_id }
    IN  IF hits = {} THEN None
        ELSE Some(docs[CHOOSE i \in hits : \A j \in hits : i <= j])

\* GenizahIndexer.get_database: the exception it raises, None when it
\* returns a connected database.
get_database(file_exists) ==
    IF ~file_exists THEN Some("FileNotFoundError") ELSE None

\* Variant of AtBatchBoundary that commits after every document.
AtBatchBoundary_Always(n) == TRUE

\* "if doc_count % 1000 == 0" in build_index.
AtBatchBoundary(n) == n % BatchSize = 0

\* ------------------------------------------------------------ corpus lines
Header(id) == HEADER_OPEN \o id \o HEADER_CLOSE

LineHeaderA == Header(<<"A">>)
LineHeaderB == Header(<<"B">>)
\* header followed by trailing whitespace
LineHeaderTrail == Header(<<"A">>) \o <<" ", "\t">>
\* "==> A <== <==": a header whose id is "A <=="
LineHeaderTwice == Header(<<"A">>) \o HEADER_CLOSE
\* lines that resemble a header
LineLeadingSpace == <<" ">> \o Header(<<"A">>)
LineTrailingText == Header(<<"A">>) \o <<"x">>
LineEmptyId == HEADER_OPEN \o HEADER_CLOSE
\* content lines
LineEmpty == <<>>
LineSpaces == <<" ">>
LineNumbered == <<" ", "1", ARROW, "x">>
LineNumberOnly == <<" ", "2", ARROW>>
LineNumberNoIndent == <<"1", ARROW, "x">>
\* a numbered line whose text is an annotation marker
LineNumberedAnnotated == <<" ", "1", ARROW, "]", "[">>
LineHeaderC == Header(<<"C">>)

ParseLinePool ==
    { LineHeaderA, LineHeaderTrail, LineHeaderTwice,
      LineLeadingSpace, LineTrailingText, LineEmptyId,
      LineEmpty, LineSpaces,
      LineNumbered, LineNumberOnly, LineNumberNoIndent }

SeqsUpTo(S, n) == UNION { [1..k -> S] : k \in 0..n }

\* ------------------------------------------------- parser specification
ParseStart ==
    /\ pos = 1
    /\ current_doc_id = None
    /\ current_lines = <<>>
    /\ yielded = <<>>
    /\ parse_pc = "loop"
    /\ count_result = None

BuildIdle ==
    /\ db_file = FALSE
    /\ committed = EmptyDatabase
    /\ working = EmptyDatabase
    /\ in_transaction = FALSE
    /\ build_pc = "idle"
    /\ doc_count = 0
    /\ build_docs = <<>>
    /\ returned = None
    /\ raised = None
    /\ builds = 0
    /\ base = EmptyDatabase
    /\ reader_view = None

\* No call has been made on a searcher.
QueryIdle ==
    /\ request = None
    /\ results = None
    /\ error = None
    /\ docs_read = 0
    /\ docs_tested = 0

\* The index directory holds no Whoosh index and no searcher is constructed.
NoWhooshIndex ==
    /\ whoosh_index = None
    /\ searcher = None
    /\ QueryIdle

\* The web application has served no request and the command line has
\* not run.
FrontIdle ==
    /\ app_searcher = None
    /\ instances = 0
    /\ served = None
    /\ web_error = None
    /\ exit_code = None
    /\ echoed = <<>>

InitParse ==
    /\ corpus \in SeqsUpTo(ParseLinePool, MaxParseLines)
    /\ final_newline \in BOOLEAN
    \* iterating a file never yields an empty string as its last line
    /\ ~(Len(corpus) > 0 /\ corpus[Len(corpus)] = <<>> /\ ~final_newline)
    /\ strip_line_numbers \in BOOLEAN
    /\ source_readable = TRUE
    /\ ParseStart
    /\ BuildIdle
    /\ NoWhooshIndex
    /\ FrontIdle

\* One iteration of "for line in f" in GenizahParser.parse.
ParseNextLine ==
    /\ parse_pc = "loop"
    /\ pos <= Len(corpus)
    /\ LET st == ParseLine([doc_id |-> current_doc_id, lines |-> current_lines,
                            out |-> yielded],
                           FileLines(corpus, final_newline)[pos], strip_line_numbers)
       IN  /\ current_doc_id' = st.doc_id
           /\ current_lines' = st.lines
           /\ yielded' = st.out
    /\ pos' = pos + 1
    /\ UNCHANGED <<corpus, final_newline, strip_line_numbers, parse_pc, count_result>>
    /\ UNCHANGED <<source_readable, store_vars, build_vars, reader_view, search_vars>>

\* End of the stream: the open document, if any, is yielded.
ParseEndOfStream ==
    /\ parse_pc = "loop"
    /\ pos > Len(corpus)
    /\ yielded' = ParseEnd([doc_id |-> current_doc_id, lines |-> current_lines,
                            out |-> yielded], strip_line_numbers)
    /\ parse_pc' = "done"
    /\ UNCHANGED <<corpus, final_newline, strip_line_numbers, pos, current_doc_id,
                   current_lines, count_result>>
    /\ UNCHANGED <<source_readable, store_vars, build_vars, reader_view, search_vars>>

\* GenizahParser.count_documents on the same file.
CountDocuments ==
    /\ count_result = None
    /\ count_result' = Some(count_documents(FileLines(corpus, final_newline)))
    /\ UNCHANGED <<corpus, final_newline, strip_line_numbers, pos, current_doc_id,
                   current_lines, yielded, parse_pc>>
    /\ UNCHANGED <<source_readable, store_vars, build_vars, reader_view, search_vars>>

NextParse == ParseNextLine \/ ParseEndOfStream \/ CountDocuments

SpecParse == InitParse /\ [][NextParse]_vars

\* -------------------------------------------------- build specification
BuildLinePool ==
    { LineHeaderA, LineHeaderB, LineHeaderC, LineNumberedAnnotated }

Init ==
    /\ source_readable \in BOOLEAN
    /\ corpus \in IF source_readable THEN SeqsUpTo(BuildLinePool, MaxBuildLines)
                  ELSE {<<>>}
    /\ final_newline = TRUE
    /\ strip_line_numbers \in BOOLEAN
    /\ ParseStart
    /\ BuildIdle
    /\ NoWhooshIndex
    /\ FrontIdle

\* build_index up to the start of its loop: create_database (connect,
\* initialize_schema, commit), count_documents when show_progress, BEGIN.
\* count_documents opens the file outside the try block.
BuildIndex(transcription_file, show_progress) ==
    /\ build_pc \in {"idle", "done", "failed"}
    /\ builds < MaxBuilds
    /\ builds' = builds + 1
    /\ corpus' = transcription_file
    /\ db_file' = TRUE
    /\ committed' = initialize_schema(committed, Now(builds'))
    /\ working' = committed'
    /\ base' = committed
    /\ doc_count' = 0
    /\ returned' = None
    /\ IF show_progress /\ ~source_readable
       THEN /\ build_pc' = "failed"
            /\ raised' = Some("FileNotFoundError")
            /\ in_transaction' = FALSE
            /\ build_docs' = <<>>
       ELSE /\ build_pc' = "insert"
            /\ raised' = None
            /\ in_transaction' = TRUE
            /\ build_docs' = IF source_readable
                              THEN parse(FileLines(corpus', final_newline),
                                         strip_line_numbers)
                              ELSE <<>>
    /\ UNCHANGED <<final_newline, strip_line_numbers, pos, current_doc_id,
                   current_lines, yielded, parse_pc, count_result>>
    /\ UNCHANGED <<source_readable, reader_view, search_vars>>

\* build_index on the transcription file of the previous call.
StartBuild(show_progress) == BuildIndex(corpus, show_progress)

\* The except block of build_index: conn.rollback(), then the exception
\* is raised again.
BuildFails(exception) ==
    /\ working' = Rollback(committed, working)
    /\ in_transaction' = FALSE
    /\ build_pc' = "failed"
    /\ raised' = Some(exception)
    /\ UNCHANGED <<db_file, committed, doc_count, build_docs, returned, builds,
                   base>>

\* One iteration of the loop of build_index: the generator yields the next
\* document, which is inserted; a batch boundary commits and begins anew.
InsertDocument ==
    /\ build_pc = "insert"
    /\ source_readable
    /\ doc_count < Len(build_docs)
    /\ LET doc == build_docs[doc_count + 1]
       IN  IF ViolatesPrimaryKey(working.documents, doc.doc_id)
           THEN BuildFails("IntegrityError")
           ELSE /\ working' = InsertDocumentRow(working, doc, Now(builds))
                /\ doc_count' = doc_count + 1
                /\ committed' = IF AtBatchBoundary(doc_count')
                                 THEN Commit(committed, working')
                                 ELSE committed
                /\ UNCHANGED <<db_file, in_transaction, build_pc, build_docs,
                               returned, raised, builds, base>>
    /\ UNCHANGED <<parser_vars, source_readable, reader_view, search_vars>>

\* The generator opens the transcription file on its first next(): a
\* missing file raises inside the try block.
SourceUnreadable ==
    /\ build_pc = "insert"
    /\ ~source_readable
    /\ BuildFails("FileNotFoundError")
    /\ UNCHANGED <<parser_vars, source_readable, reader_view, search_vars>>

\* A statement of the build fails in the storage layer (disk full, I/O
\* error, database locked).
StorageError ==
    /\ build_pc \in {"insert", "metadata", "optimize"}
    /\ BuildFails("OperationalError")
    /\ UNCHANGED <<parser_vars, source_readable, reader_view, search_vars>>

\* "Final commit" after the loop.
FinalCommit ==
    /\ build_pc = "insert"
    /\ source_readable
    /\ doc_count = Len(build_docs)
    /\ committed' = Commit(committed, working)
    /\ in_transaction' = FALSE
    /\ build_pc' = "metadata"
    /\ UNCHANGED <<db_file, working, doc_count, build_docs, returned, raised,
                   builds, base>>
    /\ UNCHANGED <<parser_vars, source_readable, reader_view, search_vars>>

\* "Update metadata": document_count and last_updated, then commit.
UpdateMetadata ==
    /\ build_pc = "metadata"
    /\ working' = UpdateMetadataRows(working, doc_count, Now(builds))
    /\ committed' = Commit(committed, working')
    /\ build_pc' = "optimize"
    /\ UNCHANGED <<db_file, in_transaction, doc_count, build_docs, returned,
                   raised, builds, base>>
    /\ UNCHANGED <<parser_vars, source_readable, reader_view, search_vars>>

\* "Optimize FTS index", commit, return doc_count.  The optimize command
\* merges the segments of the full-text index and changes no row.
Optimize ==
    /\ build_pc = "optimize"
    /\ committed' = Commit(committed, working)
    /\ build_pc' = "done"
    /\ returned' = Some(doc_count)
    /\ UNCHANGED <<db_file, working, in_transaction, doc_count, build_docs,
                   raised, builds, base>>
    /\ UNCHANGED <<parser_vars, source_readable, reader_view, search_vars>>

\* What a second connection reads: journal_mode=WAL gives a reader the last
\* committed content, never the open transaction of the writer.
ReaderSnapshot(committed_db, working_db) ==
    [documents |-> committed_db.documents,
     documents_fts |-> committed_db.documents_fts]

\* A concurrent reader queries documents and documents_fts on its own
\* connection.
ReaderQuery ==
    /\ db_file
    /\ reader_view' = Some(ReaderSnapshot(committed, working))
    /\ UNCHANGED <<parser_vars, source_readable, store_vars, build_vars,
                   search_vars>>

\* GenizahSearcher(index_dir) on the index location.
OpenSearcher ==
    /\ searcher' = Some(GenizahSearcher(whoosh_index))
    /\ UNCHANGED <<whoosh_index, query_vars, front_vars>>
    /\ UNCHANGED <<parser_vars, source_readable, store_vars, build_vars,
                   reader_view>>

Next ==
    \/ \E show_progress \in BOOLEAN : StartBuild(show_progress)
    \/ InsertDocument
    \/ SourceUnreadable
    \/ StorageError
    \/ FinalCommit
    \/ UpdateMetadata
    \/ Optimize
    \/ ReaderQuery
    \/ OpenSearcher

Spec == Init /\ [][Next]_vars

\* ---------------------------------------------------------------- searcher
\* The searcher reads a Whoosh index: its stored documents in document
\* number order, each with the fields doc_id, content, line_count and
\* has_annotations that every query mode reads from a hit.

\* SearchResult.score 1.0, scores being counted in thousandths.
ScoreOne == 1000

\* SearchResult(...) built from the stored fields of a hit.
SearchResult(doc, score, highlights) ==
    [doc_id |-> doc.doc_id,
     content |-> doc.content,
     line_count |-> doc.line_count,
     has_annotations |-> doc.has_annotations,
     score |-> score,
     highlights |-> highlights]

\* Characters that separate the words of the content field.
Separators == Whitespace \cup {"[", "]", LBRACKET2, RBRACKET2, ARROW}

\* The words of a text, in order: the maximal runs of characters that are
\* not separators.
RECURSIVE TokensFrom(_, _)
TokensFrom(text, word) ==
    IF Len(text) = 0 THEN (IF word = <<>> THEN <<>> ELSE <<word>>)
    ELSE IF text[1] \in Separators
         THEN (IF word = <<>> THEN <<>> ELSE <<word>>) \o TokensFrom(Tail(text), <<>>)
         ELSE TokensFrom(Tail(text), Append(word, text[1]))

Tokens(text) == TokensFrom(text, <<>>)

\* Number of occurrences of a term among the words of a content.
TermFrequency(content, term) ==
    Cardinality({ i \in 1..Len(Tokens(content)) : Tokens(content)[i] = term })

\* Sum of the lengths, in words, of the content field over the index.
RECURSIVE TotalFieldLength(_)
TotalFieldLength(docs) ==
    IF Len(docs) = 0 THEN 0
    ELSE Len(Tokens(docs[1].content)) + TotalFieldLength(Tail(docs))

\* The BM25F score (B = 0.75, K1 = 1.2) of one term in one document, in
\* thousandths and without the inverse document frequency, a positive
\* factor that is the same for every document of a query of one term:
\*   tf * (K1 + 1) / (tf + K1 * ((1 - B) + B * fl / avgfl)),
\* with avgfl = total / n.
BM25F(tf, fl, total, n) ==
    (22 * ScoreOne * tf * total) \div (10 * tf * total + 3 * total + 9 * fl * n)

\* QueryParser("content", schema).parse(query) for a query of at most one
\* word: None for a query without words (a query that matches nothing),
\* else Some(term).
ParseContentQuery(query) ==
    IF Tokens(query) = <<>> THEN None ELSE Some(Tokens(query)[1])

\* The hits of the parsed content query: every document that holds the
\* term, with its score.  A hit is [docnum, score].
ContentHits(docs, parsed) ==
    IF parsed = None THEN {}
    ELSE { [docnum |-> i,
            score |-> BM25F(TermFrequency(docs[i].content, parsed[1]),
                            Len(Tokens(docs[i].content)),
                            TotalFieldLength(docs), Len(docs))] :
             i \in { j \in 1..Len(docs) : TermFrequency(docs[j].content, parsed[1]) > 0 } }

\* Variant of BestHit that prefers, among equal scores, the highest
\* document number.
BestHit_LastAdded(hits) ==
    CHOOSE h \in hits :
        \A g \in hits : h.score > g.score \/ (h.score = g.score /\ h.docnum >= g.docnum)

\* The hit that a collector ranks first: the highest score, and among
\* equal scores the lowest document number.
BestHit(hits) ==
    CHOOSE h \in hits :
        \A g \in hits : h.score > g.score \/ (h.score = g.score /\ h.docnum <= g.docnum)

RECURSIVE Ranked(_)
Ranked(hits) ==
    IF hits = {} THEN <<>>
    ELSE <<BestHit(hits)>> \o Ranked(hits \ {BestHit(hits)})

Min(a, b) == IF a <= b THEN a ELSE b

\* What a call on the searcher gives: the list returned or the exception
\* raised, the number of stored documents read, and the number of
\* documents the regular expression was tested on.
Returns(list, read, tested) ==
    [results |-> list, error |-> None, docs_read |-> read, docs_tested |-> tested]

Raises(exception) ==
    [results |-> None, error |-> Some(exception), docs_read |-> 0, docs_tested |-> 0]

\* Variant of CollectTop that keeps the hits found first, in document order.
CollectTop_FirstFound(hits, limit) ==
    LET found == { h \in hits : Cardinality({ g \in hits : g.docnum < h.docnum }) < limit }
    IN  [i \in 1..Cardinality(found) |->
            CHOOSE h \in found : Cardinality({ g \in found : g.docnum < h.docnum }) = i - 1]

\* searcher.search(q, limit=limit) on the hits of q, for limit >= 1: the
\* limit best hits, best first.
CollectTop(hits, limit) ==
    SubSeq(Ranked(hits), 1, Min(limit, Cardinality(hits)))

\* searcher.search builds its collector first, which refuses a limit below 1.
LimitRefused(limit) == limit < 1

\* The tags the formatter of the highlighter puts around a matched word.
MatchOpen == "<match>"
MatchClose == "</match>"

\* The text of a fragment as the formatter of the highlighter writes it:
\* every word equal to the term is put between the formatter's tags.
RECURSIVE FormatFrom(_, _, _)
FormatFrom(text, word, term) ==
    LET flushed == IF word = term /\ word # <<>>
                   THEN <<MatchOpen>> \o word \o <<MatchClose>>
                   ELSE word
    IN  IF Len(text) = 0 THEN flushed
        ELSE IF text[1] \in Separators
             THEN flushed \o <<text[1]>> \o FormatFrom(Tail(text), <<>>, term)
             ELSE FormatFrom(Tail(text), Append(word, text[1]), term)

\* Variant of hit_highlights that finds no fragment.
hit_highlights_Empty(content, term) == <<>>

\* hit.highlights("content", top=3) for a content shorter than the context
\* window of the fragmenter (surround=50): one fragment, the whole content.
hit_highlights(content, term) == FormatFrom(content, <<>>, term)

\* GenizahSearcher._fulltext_search
fulltext_search(docs, query, limit, with_highlights) ==
    LET parsed == ParseContentQuery(query)
        top == CollectTop(ContentHits(docs, parsed), limit)
    IN  IF LimitRefused(limit) THEN Raises("ValueError")
        ELSE Returns([i \in 1..Len(top) |->
                         SearchResult(docs[top[i].docnum], top[i].score,
                                      IF with_highlights
                                      THEN Some(hit_highlights(docs[top[i].docnum].content,
                                                               parsed[1]))
                                      ELSE None)],
                     Len(top), 0)

\* A wildcard pattern matches a whole term: "*" stands for any run of
\* characters, "?" for any one character.
RECURSIVE Wildcard(_, _)
Wildcard(pattern, term) ==
    IF Len(pattern) = 0 THEN Len(term) = 0
    ELSE IF pattern[1] = "*"
         THEN \/ Wildcard(Tail(pattern), term)
              \/ (Len(term) > 0 /\ Wildcard(pattern, Tail(term)))
         ELSE /\ Len(term) > 0
              /\ (pattern[1] = "?" \/ pattern[1] = term[1])
              /\ Wildcard(Tail(pattern), Tail(term))

Contains(s, c) == \E i \in 1..Len(s) : s[i] = c

\* Variant of WrapWildcards that matches at the start of the id only.
WrapWildcards_PrefixOnly(query) ==
    IF ~Contains(query, "*") THEN query \o <<"*">> ELSE query

\* "if '*' not in query: query = f'*{query}*'" in _docid_search.
WrapWildcards(query) ==
    IF ~Contains(query, "*") THEN <<"*">> \o query \o <<"*">> ELSE query

\* The hits of the wildcard query on doc_id: a query of several terms is
\* given the same score, 1.0, for every document it matches.
DocidHits(docs, pattern) ==
    { [docnum |-> i, score |-> ScoreOne] :
        i \in { j \in 1..Len(docs) : Wildcard(pattern, docs[j].doc_id) } }

\* GenizahSearcher._docid_search; SearchResult.highlights keeps its
\* default, None.
docid_search(docs, query, limit) ==
    LET top == CollectTop(DocidHits(docs, WrapWildcards(query)), limit)
    IN  IF LimitRefused(limit) THEN Raises("ValueError")
        ELSE Returns([i \in 1..Len(top) |->
                         SearchResult(docs[top[i].docnum], top[i].score, None)],
                     Len(top), 0)

\* Variant of re_compile that accepts every pattern.
re_compile_Lenient(pattern) == Some(pattern)

\* re.compile(pattern) for patterns of literal characters, "." and "[":
\* None when re.error is raised (a "[" that no "]" closes is an
\* unterminated character set), else Some(regex).
re_compile(pattern) ==
    IF \E i \in 1..Len(pattern) :
           pattern[i] = "[" /\ \A j \in (i + 1)..Len(pattern) : pattern[j] # "]"
    THEN None
    ELSE Some(pattern)

\* regex.search(text): the pattern matches somewhere in the text; "."
\* matches any character but a newline.
regex_search(regex, text) ==
    \E start \in 1..(Len(text) + 1) :
        /\ start + Len(regex) - 1 <= Len(text)
        /\ \A k \in 1..Len(regex) :
              IF regex[k] = "." THEN text[start + k - 1] # NL
              ELSE text[start + k - 1] = regex[k]

\* Variant of regex_scan that tests the pattern before it looks at count.
RECURSIVE regex_scan_TestsFirst(_, _, _, _)
regex_scan_TestsFirst(docs, regex, limit, st) ==
    IF Len(docs) = 0 THEN st
    ELSE LET found == regex_search(regex, docs[1].content)
         IN  IF st.count >= limit
             THEN [st EXCEPT !.docs_checked = @ + 1, !.docs_tested = @ + 1]
             ELSE regex_scan_TestsFirst(Tail(docs), regex, limit,
                    [results |-> IF found
                                 THEN Append(st.results, SearchResult(docs[1], ScoreOne, None))
                                 ELSE st.results,
                     count |-> IF found THEN st.count + 1 ELSE st.count,
                     docs_checked |-> st.docs_checked + 1,
                     docs_tested |-> st.docs_tested + 1])

\* The loop "for doc in searcher.documents()" of _regex_search on the
\* documents not yet visited; st holds results, count, docs_checked and
\* the number of documents regex.search was called on.
RECURSIVE regex_scan(_, _, _, _)
regex_scan(docs, regex, limit, st) ==
    IF Len(docs) = 0 THEN st
    ELSE IF st.count >= limit
         THEN [st EXCEPT !.docs_checked = @ + 1]
         ELSE LET found == regex_search(regex, docs[1].content)
              IN  regex_scan(Tail(docs), regex, limit,
                    [results |-> IF found
                                 THEN Append(st.results, SearchResult(docs[1], ScoreOne, None))
                                 ELSE st.results,
                     count |-> IF found THEN st.count + 1 ELSE st.count,
                     docs_checked |-> st.docs_checked + 1,
                     docs_tested |-> st.docs_tested + 1])

\* GenizahSearcher._regex_search: re.error becomes ValueError before the
\* index is read.
regex_search_mode(docs, pattern, limit) ==
    IF re_compile(pattern) = None THEN Raises("ValueError")
    ELSE LET st == regex_scan(docs, re_compile(pattern)[1], limit,
                              [results |-> <<>>, count |-> 0,
                               docs_checked |-> 0, docs_tested |-> 0])
         IN  Returns(st.results, st.docs_checked, st.docs_tested)

\* GenizahSearcher.search: the dispatch on search_type.
search(docs, query, search_type, limit, with_highlights) ==
    IF search_type = "fulltext" THEN fulltext_search(docs, query, limit, with_highlights)
    ELSE IF search_type = "docid" THEN docid_search(docs, query, limit)
    ELSE IF search_type = "regex" THEN regex_search_mode(docs, query, limit)
    ELSE Raises("ValueError")

\* "end = max_line_count if max_line_count is not None else 999999"
LINE_COUNT_END == 999999

\* The hits of the query advanced_search builds: the documents that every
\* sub-query matches, the score of a hit being the sum of the scores its
\* sub-queries give.  Term("has_annotations", v) and NumericRange give
\* each document they match the same score, 1.0.  No sub-query at all is
\* And([]), which matches nothing.
AdvancedHits(docs, query, has_annotations, min_line_count, max_line_count) ==
    LET text == query # <<>>
        content_hits == ContentHits(docs, ParseContentQuery(query))
        range == min_line_count # None \/ max_line_count # None
        start == IF min_line_count # None THEN min_line_count[1] ELSE 0
        end == IF max_line_count # None THEN max_line_count[1] ELSE LINE_COUNT_END
        matched == { i \in 1..Len(docs) :
                       /\ text => \E h \in content_hits : h.docnum = i
                       /\ has_annotations # None
                            => docs[i].has_annotations = has_annotations[1]
                       /\ range => (start <= docs[i].line_count
                                    /\ docs[i].line_count <= end) }
        TextScore(i) == IF text
                        THEN (CHOOSE h \in content_hits : h.docnum = i).score
                        ELSE 0
    IN  IF ~text /\ has_annotations = None /\ ~range THEN {}
        ELSE { [docnum |-> i,
                score |-> TextScore(i)
                          + (IF has_annotations # None THEN ScoreOne ELSE 0)
                          + (IF range THEN ScoreOne ELSE 0)] : i \in matched }

\* GenizahSearcher.advanced_search
advanced_search(docs, query, has_annotations, min_line_count, max_line_count, limit) ==
    LET top == CollectTop(AdvancedHits(docs, query, has_annotations, min_line_count,
                                       max_line_count), limit)
    IN  IF LimitRefused(limit) THEN Raises("ValueError")
        ELSE Returns([i \in 1..Len(top) |->
                         SearchResult(docs[top[i].docnum], top[i].score, None)],
                     Len(top), 0)

\* ----------------------------------------------------- search specification
\* Stored documents of an index.  The content of the long document is
\* abbreviated: only its line_count matters to a query.
StoredDoc(doc_id, content, line_count, has_annotations) ==
    [doc_id |-> doc_id, content |-> content, line_count |-> line_count,
     has_annotations |-> has_annotations]

DocD1 == StoredDoc(<<"D", "1">>, <<"a", "b">>, 1, FALSE)
DocD2 == StoredDoc(<<"D", "2">>,
                   <<"a", "b", " ", "a", "b", NL, "b", "a", "]", "[">>, 2, TRUE)
Doc1D == StoredDoc(<<"1", "D">>, <<"b", "a", " ", "a", "b">>, 1, FALSE)
DocD12 == StoredDoc(<<"D", "1", "2">>, <<"b", "a">>, 1000000, FALSE)
DocE == StoredDoc(<<"E">>, <<>>, 0, FALSE)

DocPool == { DocD1, DocD2, Doc1D, DocD12, DocE }

\* The indexes a searcher is opened on: documents with distinct ids, in the
\* order in which they were added.
Indexes ==
    { d \in SeqsUpTo(DocPool, MaxIndexDocs) :
        \A i, j \in 1..Len(d) : i # j => d[i].doc_id # d[j].doc_id }

\* Queries, by the mode that reads them.
ContentQueries == { <<>>, <<"a", "b">>, <<"b", "a">> }
DocidQueries == { <<"D">>, <<"1">>, <<"D", "?">>, <<"D", "*">>, <<"D", "1">> }
RegexPatterns == { <<>>, <<"b", ".", "a">>, <<"b", ".", "b">>, <<"[", "a">> }
SearchTypes == { "fulltext", "docid", "regex", "advanced" }

QueriesOf(search_type) ==
    IF search_type = "docid" THEN DocidQueries
    ELSE IF search_type = "regex" THEN RegexPatterns
    ELSE ContentQueries

Limits == 0..MaxLimit

InitSearch ==
    /\ corpus = <<>>
    /\ final_newline = TRUE
    /\ strip_line_numbers = FALSE
    /\ source_readable = TRUE
    /\ ParseStart
    /\ BuildIdle
    /\ whoosh_index \in {None} \cup { Some([documents |-> d, generation |-> 1]) :
                                       d \in Indexes }
    /\ searcher = None
    /\ QueryIdle
    /\ FrontIdle

\* The call and its arguments, as request records them.
Request(op, query, search_type, limit, with_highlights, has_annotations, min_line_count, max_line_count) ==
    Some([op |-> op, query |-> query, search_type |-> search_type, limit |-> limit,
          with_highlights |-> with_highlights, has_annotations |-> has_annotations,
          min_line_count |-> min_line_count, max_line_count |-> max_line_count])

\* The outcome of a call becomes visible to the caller.
Outcome(out) ==
    /\ results' = out.results
    /\ error' = out.error
    /\ docs_read' = out.docs_read
    /\ docs_tested' = out.docs_tested

\* searcher.search(query, search_type, limit, with_highlights)
Search(query, search_type, limit, with_highlights) ==
    /\ searcher = Some("open")
    /\ request = None
    /\ request' = Request("search", query, Some(search_type), limit,
                          Some(with_highlights), None, None, None)
    /\ Outcome(search(StoredDocuments(whoosh_index), query, search_type, limit,
                      with_highlights))
    /\ UNCHANGED <<whoosh_index, searcher, front_vars>>
    /\ UNCHANGED <<parser_vars, source_readable, store_vars, build_vars, reader_view>>

\* searcher.advanced_search(query, has_annotations, min_line_count,
\* max_line_count, limit)
AdvancedSearch(query, has_annotations, min_line_count, max_line_count, limit) ==
    /\ searcher = Some("open")
    /\ request = None
    /\ request' = Request("advanced_search", query, None, limit, None,
                          has_annotations, min_line_count, max_line_count)
    /\ Outcome(advanced_search(StoredDocuments(whoosh_index), query, has_annotations,
                               min_line_count, max_line_count, limit))
    /\ UNCHANGED <<whoosh_index, searcher, front_vars>>
    /\ UNCHANGED <<parser_vars, source_readable, store_vars, build_vars, reader_view>>

\* searcher.get_document(doc_id): results holds None or Some(document).
GetDocument(doc_id) ==
    /\ searcher = Some("open")
    /\ request = None
    /\ request' = Request("get_document", doc_id, None, 1, None, None, None, None)
    /\ Outcome(Returns(get_document(StoredDocuments(whoosh_index), doc_id),
                       Len(get_document(StoredDocuments(whoosh_index), doc_id)), 0))
    /\ UNCHANGED <<whoosh_index, searcher, front_vars>>
    /\ UNCHANGED <<parser_vars, source_readable, store_vars, build_vars, reader_view>>

\* The caller has taken what the call gave; the searcher, which keeps no
\* state of a call, is ready for the next one.
CallReturns ==
    /\ request # None
    /\ request' = None
    /\ results' = None
    /\ error' = None
    /\ docs_read' = 0
    /\ docs_tested' = 0
    /\ UNCHANGED <<whoosh_index, searcher, front_vars>>
    /\ UNCHANGED <<parser_vars, source_readable, store_vars, build_vars, reader_view>>

\* --------------------------------------------------------------- front ends
\* get_searcher of the web application: app.searcher is set only when the
\* constructor of GenizahSearcher returns; its exception goes to the caller.
GetSearcher ==
    /\ IF app_searcher # None
       THEN /\ served' = app_searcher
            /\ web_error' = None
            /\ UNCHANGED <<app_searcher, instances>>
       ELSE IF GenizahSearcher(whoosh_index) = "open"
            THEN /\ instances' = instances + 1
                 /\ app_searcher' = Some(instances')
                 /\ served' = app_searcher'
                 /\ web_error' = None
            ELSE /\ served' = None
                 /\ web_error' = Some(GenizahSearcher(whoosh_index))
                 /\ UNCHANGED <<app_searcher, instances>>
    /\ UNCHANGED <<whoosh_index, searcher, query_vars, exit_code, echoed>>
    /\ UNCHANGED <<parser_vars, source_readable, store_vars, build_vars, reader_view>>

\* A line that click.echo writes: what it reports and the number in it.
Echo(label, value) == [label |-> label, value |-> value]

\* The percentage of show_statistics in tenths, as "{pct:.1f}" prints it.
Percentage(part, whole) == (1000 * part + (whole \div 2)) \div whole

\* show_statistics of the command line: the two counts are written, then
\* the percentage is computed by a division by total_documents.
show_statistics(stats) ==
    IF stats.total_documents = 0
    THEN [raised |-> Some("ZeroDivisionError"),
          echoed |-> <<Echo("Total Documents", stats.total_documents),
                       Echo("Documents with Annotations",
                            stats.documents_with_annotations)>>]
    ELSE [raised |-> None,
          echoed |-> <<Echo("Total Documents", stats.total_documents),
                       Echo("Documents with Annotations",
                            stats.documents_with_annotations),
                       Echo("Percentage with Annotations",
                            Percentage(stats.documents_with_annotations,
                                       stats.total_documents))>>]

\* main of the command line with --stats: the searcher is constructed and
\* show_statistics is called; any exception is written as an error and the
\* process exits with code 1, else main returns and the exit code is 0.
CliStats ==
    /\ IF GenizahSearcher(whoosh_index) # "open"
       THEN /\ exit_code' = Some(1)
            /\ echoed' = <<Echo("Error", 0)>>
       ELSE LET shown == show_statistics(get_statistics(whoosh_index))
            IN  IF shown.raised # None
                THEN /\ exit_code' = Some(1)
                     /\ echoed' = Append(shown.echoed, Echo("Error", 0))
                ELSE /\ exit_code' = Some(0)
                     /\ echoed' = shown.echoed
    /\ UNCHANGED <<whoosh_index, searcher, query_vars, app_searcher, instances,
                   served, web_error>>
    /\ UNCHANGED <<parser_vars, source_readable, store_vars, build_vars, reader_view>>

OptionalBool == { None, Some(TRUE), Some(FALSE) }
MinLineCounts == { None, Some(1), Some(2) }
MaxLineCounts == { None, Some(1) }
DocumentIds == { <<"D", "1">>, <<"D">>, <<"E">> }

NextSearch ==
    \/ OpenSearcher
    \/ \E search_type \in SearchTypes, limit \in Limits, with_highlights \in BOOLEAN :
          \E query \in QueriesOf(search_type) :
             Search(query, search_type, limit, with_highlights)
    \/ \E query \in ContentQueries, has_annotations \in OptionalBool,
          min_line_count \in MinLineCounts, max_line_count \in MaxLineCounts,
          limit \in Limits :
             AdvancedSearch(query, has_annotations, min_line_count, max_line_count, limit)
    \/ \E doc_id \in DocumentIds : GetDocument(doc_id)
    \/ CallReturns
    \/ GetSearcher
    \/ CliStats

SpecSearch == InitSearch /\ [][NextSearch]_vars

\* ------------------------------------------------ rebuild specification
\* Builds of several transcription files on one index location, with the
\* web application serving requests on that location.
RebuildFiles ==
    { <<>>,
      <<LineHeaderA>>,
      <<LineHeaderB, LineHeaderC>>,
      <<LineHeaderA, LineNumberedAnnotated, LineHeaderB, LineHeaderC>> }

InitRebuild ==
    /\ corpus = <<>>
    /\ final_newline = TRUE
    /\ strip_line_numbers = TRUE
    /\ source_readable \in BOOLEAN
    /\ ParseStart
    /\ BuildIdle
    /\ NoWhooshIndex
    /\ FrontIdle

NextRebuild ==
    \/ \E transcription_file \in RebuildFiles, show_progress \in BOOLEAN :
          BuildIndex(transcription_file, show_progress)
    \/ InsertDocument
    \/ SourceUnreadable
    \/ StorageError
    \/ FinalCommit
    \/ UpdateMetadata
    \/ Optimize
    \/ GetSearcher

SpecRebuild == InitRebuild /\ [][NextRebuild]_vars

\* ---------------------------------------------------- store specification
\* INSERT and DELETE statements with commits on a connection to a database
\* whose schema initialize_schema has created.

\* The tokenizer unicode61 of documents_fts: the words of a text of
\* letters, digits and spaces.
unicode61(text) == Tokens(text)

\* The rows that a scan of documents_fts WHERE rowid = r visits.  The table
\* is declared with content=documents, so its rows are read from the
\* documents table.
FtsRowsAt(db, rowid) ==
    { i \in 1..Len(db.documents) : db.documents[i].rowid = rowid }

\* Trigger documents_ad: AFTER DELETE ON documents, DELETE FROM
\* documents_fts WHERE rowid = old.rowid.  db is the view once the row is
\* deleted; the entries of the rows the scan visits are removed from the
\* full-text index.
documents_ad(db, old) ==
    LET Stays(entry) == ~(entry.rowid = old.rowid /\ FtsRowsAt(db, old.rowid) # {})
    IN  [db EXCEPT !.documents_fts = SelectSeq(@, Stays)]

\* DELETE FROM documents WHERE doc_id = ? on a connection whose view is db.
DeleteDocumentRow(db, doc_id) ==
    LET hits == { i \in 1..Len(db.documents) : db.documents[i].doc_id = doc_id }
        Other(row) == row.doc_id # doc_id
    IN  IF hits = {} THEN db
        ELSE documents_ad([db EXCEPT !.documents = SelectSeq(@, Other)],
                          db.documents[CHOOSE i \in hits : TRUE])

\* The rowids that the full-text index lists for a token.
MatchedRowids(db, token) ==
    { db.documents_fts[i].rowid :
        i \in { j \in 1..Len(db.documents_fts) :
                  \E k \in 1..Len(unicode61(db.documents_fts[j].content)) :
                     unicode61(db.documents_fts[j].content)[k] = token } }

\* The elements of a set of rowids in increasing order.
RECURSIVE Ascending(_)
Ascending(rowids) ==
    IF rowids = {} THEN <<>>
    ELSE LET least == CHOOSE r \in rowids : \A q \in rowids : r <= q
         IN  <<least>> \o Ascending(rowids \ {least})

\* SELECT rowid, doc_id, content FROM documents_fts WHERE documents_fts
\* MATCH token: for every rowid the index lists, the row of documents with
\* that rowid; a listed rowid without a row makes the statement fail
\* (sqlite3.DatabaseError: database disk image is malformed).
fts_match(db, token) ==
    IF \E r \in MatchedRowids(db, token) : FtsRowsAt(db, r) = {}
    THEN [error |-> Some("DatabaseError"), rows |-> <<>>]
    ELSE [error |-> None,
          rows |-> [n \in 1..Cardinality(MatchedRowids(db, token)) |->
                      db.documents[CHOOSE i \in FtsRowsAt(
                          db, Ascending(MatchedRowids(db, token))[n]) : TRUE]]]

\* Documents as the parser yields them, for the statements on the store.
StoreDoc(doc_id, content) ==
    [doc_id |-> doc_id, content |-> content, line_count |-> 1,
     has_annotations |-> FALSE]

StoreDocs ==
    { StoreDoc(<<"A">>, <<"a", " ", "b">>),
      StoreDoc(<<"B">>, <<"a", " ", "c">>),
      StoreDoc(<<"C">>, <<"d", " ", "b">>) }

StoreTokens == { <<"a">>, <<"b">>, <<"c">>, <<"d">> }

InitStore ==
    /\ corpus = <<>>
    /\ final_newline = TRUE
    /\ strip_line_numbers = TRUE
    /\ source_readable = TRUE
    /\ ParseStart
    /\ db_file = TRUE
    /\ committed = initialize_schema(EmptyDatabase, Now(0))
    /\ working = committed
    /\ in_transaction = FALSE
    /\ build_pc = "idle"
    /\ doc_count = 0
    /\ build_docs = <<>>
    /\ returned = None
    /\ raised = None
    /\ builds = 0
    /\ base = EmptyDatabase
    /\ reader_view = None
    /\ NoWhooshIndex
    /\ FrontIdle

\* cursor.execute("INSERT INTO documents ..."): a stored doc_id makes the
\* statement fail and leaves the view as it was.  The sqlite3 module opens
\* a transaction before the statement.
StoreInsert(doc) ==
    /\ Len(working.documents_fts) < MaxInserts
    /\ MaxRowid(working.documents) < MaxInserts
    /\ working' = IF ViolatesPrimaryKey(working.documents, doc.doc_id)
                  THEN working
                  ELSE InsertDocumentRow(working, doc, Now(0))
    /\ in_transaction' = TRUE
    /\ UNCHANGED <<db_file, committed>>
    /\ UNCHANGED <<parser_vars, source_readable, build_vars, reader_view, search_vars>>

\* cursor.execute("DELETE FROM documents WHERE doc_id = ?")
StoreDelete(doc_id) ==
    /\ working' = DeleteDocumentRow(working, doc_id)
    /\ in_transaction' = TRUE
    /\ UNCHANGED <<db_file, committed>>
    /\ UNCHANGED <<parser_vars, source_readable, build_vars, reader_view, search_vars>>

\* conn.commit()
StoreCommit ==
    /\ in_transaction
    /\ committed' = Commit(committed, working)
    /\ in_transaction' = FALSE
    /\ UNCHANGED <<db_file, working>>
    /\ UNCHANGED <<parser_vars, source_readable, build_vars, reader_view, search_vars>>

NextStore ==
    \/ \E doc \in StoreDocs : StoreInsert(doc)
    \/ \E doc \in StoreDocs : StoreDelete(doc.doc_id)
    \/ StoreCommit

SpecStore == InitStore /\ [][NextStore]_vars

\* ------------------------------------------------------- parser properties
\* A line is a header: "==> ", a non-empty id, " <==", then only whitespace.
IsHeaderLine(line) ==
    \E n \in 1..Len(line) :
        \E ws \in 0..Len(line) :
            /\ Len(line) = 4 + n + 4 + ws
            /\ SubSeq(line, 1, 4) = <<"=", "=", ">", " ">>
            /\ SubSeq(line, 5 + n, 8 + n) = <<" ", "<", "=", "=">>
            /\ \A i \in (9 + n)..Len(line) : line[i] \in {" ", "\t"}

\* The parser has just yielded a document (at a header or at end of stream).
Yields == Len(yielded') = Len(yielded) + 1

LastYielded == yielded[Len(yielded)]

\* C7: once parse() and count_documents() have both run on a file, the count
\* equals the number of documents parse() yielded.
C7_CountEqualsParsed ==
    (parse_pc = "done" /\ count_result # None) => count_result[1] = Len(yielded)

C7_Witness ==
    /\ parse_pc = "done"
    /\ count_result = Some(2)
    /\ Len(yielded) = 2
    /\ \E i \in 1..Len(corpus) : corpus[i] = LineTrailingText

\* C8: a step of the parser on a line opens a new document exactly when the
\* line is "==> <id> <==" with optional trailing whitespace (the open
\* document, if any, is then yielded with the lines gathered so far); any
\* other line is appended to the lines of the open document, in order,
\* and opens nothing.
C8_HeaderGrammar ==
    [][ pos' = pos + 1 =>
          IF IsHeaderLine(corpus[pos])
          THEN /\ current_doc_id' # None
               /\ corpus[pos] = Header(current_doc_id'[1])
                                 \o Tail_from(corpus[pos], Len(current_doc_id'[1]) + 9)
               /\ current_lines' = <<>>
               /\ IF current_doc_id = None THEN yielded' = yielded
                  ELSE /\ Yields
                       /\ yielded'[Len(yielded')].doc_id = current_doc_id[1]
                       /\ SubSeq(yielded', 1, Len(yielded)) = yielded
          ELSE /\ current_doc_id' = current_doc_id
               /\ yielded' = yielded
               /\ current_lines' = IF current_doc_id = None THEN <<>>
                                    ELSE Append(current_lines, corpus[pos])
      ]_vars

C8_Witness ==
    /\ parse_pc = "loop"
    /\ current_doc_id = Some(<<"A">>)
    /\ current_lines = <<LineTrailingText, LineLeadingSpace>>
    /\ yielded = <<>>

\* C9: a document yielded from no lines or from blank lines only has
\* content "" and line_count 0, and at end of stream the open document is
\* yielded.
C9_EmptyDocument ==
    [][ /\ (Yields /\ \A i \in 1..Len(current_lines) : IsBlank(current_lines[i]))
            => /\ yielded'[Len(yielded')].content = <<>>
               /\ yielded'[Len(yielded')].line_count = 0
        /\ (parse_pc = "loop" /\ parse_pc' = "done" /\ current_doc_id # None)
            => /\ Yields
               /\ yielded'[Len(yielded')].doc_id = current_doc_id[1]
      ]_vars

C9_Witness ==
    /\ parse_pc = "done"
    /\ Len(yielded) = 2
    /\ yielded[1].content = <<>> /\ yielded[1].line_count = 0
    /\ current_lines = <<LineSpaces>>
    /\ LastYielded.content = <<>> /\ LastYielded.line_count = 0

\* Length of the longest prefix of s whose characters are all in S.
RECURSIVE LeadingRun(_, _)
LeadingRun(s, S) ==
    IF Len(s) > 0 /\ s[1] \in S THEN 1 + LeadingRun(Tail(s), S) ELSE 0

\* The line without its line-number prefix: leading whitespace, digits and
\* the arrow, each present.
WithoutPrefix(line) ==
    LET w == LeadingRun(line, {" ", "\t"})
        d == LeadingRun(Tail_from(line, w + 1), Digits)
    IN  IF w >= 1 /\ d >= 1 /\ w + d < Len(line) /\ line[w + d + 1] = ARROW
        THEN Tail_from(line, w + d + 2)
        ELSE line

\* C10: with strip_line_numbers, a yielded document's content is its lines
\* without their line-number prefixes, joined by newline and trimmed, and
\* its line_count is the number of those lines that are not blank.
C10_StripLineNumbers ==
    [][ (Yields /\ strip_line_numbers) =>
          LET stripped == [i \in 1..Len(current_lines) |-> WithoutPrefix(current_lines[i])]
              doc == yielded'[Len(yielded')]
          IN  /\ doc.content = strip(join_nl(stripped))
              /\ doc.line_count =
                   Cardinality({ i \in 1..Len(stripped) : ~IsBlank(stripped[i]) })
      ]_vars

C10_Witness ==
    /\ parse_pc = "done"
    /\ strip_line_numbers
    /\ current_lines = <<LineNumbered, LineNumberOnly>>
    /\ LastYielded.content = <<"x">>
    /\ LastYielded.line_count = 1

\* -------------------------------------------------------- build properties
\* The parsed documents that the rows of a documents table hold.
DocumentsOf(rows) ==
    [i \in 1..Len(rows) |->
        [doc_id |-> rows[i].doc_id,
         content |-> rows[i].content,
         line_count |-> rows[i].line_count,
         has_annotations |-> rows[i].has_annotations = 1]]

\* The full-text rows agree with the rows of the documents table.
PostingsAgree(db) ==
    /\ Len(db.documents_fts) = Len(db.documents)
    /\ \A i \in 1..Len(db.documents) :
          /\ db.documents_fts[i].rowid = db.documents[i].rowid
          /\ db.documents_fts[i].doc_id = db.documents[i].doc_id
          /\ db.documents_fts[i].content = db.documents[i].content

\* Number of documents in the batches that n inserted documents complete.
InFullBatches(n) == n - (n % BatchSize)

\* C1 (as claimed): a searcher constructed after a successful build opens,
\* and get_document returns every parsed document with its exact content.
C1_RoundTrip ==
    [][ (build_pc = "done" /\ searcher' # searcher) =>
          \A i \in 1..Len(build_docs) :
             /\ searcher' = Some("open")
             /\ get_document(StoredDocuments(whoosh_index), build_docs[i].doc_id) # None
             /\ get_document(StoredDocuments(whoosh_index), build_docs[i].doc_id)[1].content
                  = build_docs[i].content
      ]_vars

\* C2 (as claimed): constructing a searcher where a build has succeeded
\* opens the index; constructing it where no index exists raises
\* FileNotFoundError.
C2_SearcherOpens ==
    [][ searcher' # searcher =>
          /\ build_pc = "done" => searcher' = Some("open")
          /\ ~db_file => searcher' = Some("FileNotFoundError")
      ]_vars

\* C3: when a build fails in its insert loop, the exception is raised, no
\* transaction stays open, the documents inserted since the last commit are
\* gone, and the store holds what it held before the call followed by the
\* documents of the batches committed in the call.
C3_FailedInsertRollsBack ==
    [][ (build_pc = "insert" /\ build_pc' = "failed") =>
          /\ raised' # None
          /\ returned' = None
          /\ ~in_transaction'
          /\ working' = committed'
          /\ DocumentsOf(committed'.documents) =
                DocumentsOf(base.documents)
                \o SubSeq(build_docs, 1, InFullBatches(doc_count))
          /\ PostingsAgree(committed')
      ]_vars

C3_Witness ==
    /\ build_pc = "failed"
    /\ raised = Some("IntegrityError")
    /\ builds = 1
    /\ Len(committed.documents) = BatchSize
    /\ doc_count > BatchSize

\* C4: while a build runs, what a reader on its own connection reads is
\* the store as it was before the build followed by the documents of the
\* batches committed so far (all of them once the final commit is done),
\* and its full-text rows agree with its document rows.
C4_ReaderSeesCommittedBatches ==
    [][ (reader_view' # reader_view /\ build_pc \in {"insert", "metadata", "optimize"}) =>
          /\ DocumentsOf(reader_view'[1].documents) =
                DocumentsOf(base.documents)
                \o SubSeq(build_docs, 1,
                          IF build_pc = "insert" THEN InFullBatches(doc_count)
                          ELSE doc_count)
          /\ PostingsAgree(reader_view'[1])
      ]_vars

C4_Witness ==
    /\ build_pc = "insert"
    /\ in_transaction
    /\ reader_view # None
    /\ reader_view[1].documents = committed.documents
    /\ Len(committed.documents) = BatchSize
    /\ Len(working.documents) > Len(committed.documents)

\* C5 (as claimed): when a corpus has been built and is built again (no
\* storage failure in the second build), a searcher constructed on the
\* location afterwards reports through get_statistics the total that the
\* store held after the first build, and document_count is what it was then.
C5_RebuildIdempotent ==
    [][ (builds = 2 /\ build_pc \in {"done", "failed"}
         /\ base.index_metadata.document_count # None
         /\ raised # Some("OperationalError") /\ searcher' # searcher) =>
          /\ searcher' = Some("open")
          /\ get_statistics(whoosh_index).total_documents = Len(base.documents)
          /\ committed.index_metadata.document_count
               = base.index_metadata.document_count
      ]_vars

\* C6: a build that succeeds on an empty index returns the number of
\* documents its parser yielded, the documents table holds that many rows,
\* document_count holds that number and last_updated is set.
C6_SuccessfulBuildCounts ==
    (build_pc = "done" /\ base.documents = <<>>) =>
        /\ returned = Some(Len(build_docs))
        /\ Len(committed.documents) = Len(build_docs)
        /\ committed.index_metadata.document_count # None
        /\ int(committed.index_metadata.document_count[1]) = Len(build_docs)
        /\ committed.index_metadata.last_updated # None

C6_Witness ==
    /\ build_pc = "done"
    /\ base.documents = <<>>
    /\ returned = Some(3)
    /\ Len(committed.documents) = 3
    /\ committed.index_metadata.document_count = Some(<<"3">>)

\* ------------------------------------------------------- search properties
\* The documents of the index the searcher has opened.
IndexDocs == StoredDocuments(whoosh_index)

\* A call of the given kind has returned (or raised) and is not yet taken.
Called(op) == request # None /\ request[1].op = op

SearchCalled(search_type) ==
    Called("search") /\ request[1].search_type = Some(search_type)

ResultIds(list) == [i \in 1..Len(list) |-> list[i].doc_id]

\* The stored fields of a result are those of a document of the index.
FromIndex(result) ==
    \E i \in 1..Len(IndexDocs) :
        /\ IndexDocs[i].doc_id = result.doc_id
        /\ IndexDocs[i].content = result.content
        /\ IndexDocs[i].line_count = result.line_count
        /\ IndexDocs[i].has_annotations = result.has_annotations

\* Position in the index of the document with the given id.
DocnumOf(doc_id) == CHOOSE i \in 1..Len(IndexDocs) : IndexDocs[i].doc_id = doc_id

\* s occurs in t as a substring.
IsSubstring(s, t) == \E i \in 1..(Len(t) + 1) : HasAt(t, i, s)

\* The document holds the word of the text clause.
HoldsWord(doc, query) ==
    \E i \in 1..Len(Tokens(doc.content)) : Tokens(doc.content)[i] = Tokens(query)[1]

\* The document satisfies every clause the request supplies.
SatisfiesClauses(doc, req) ==
    /\ req.query # <<>> => HoldsWord(doc, req.query)
    /\ req.has_annotations # None => doc.has_annotations = req.has_annotations[1]
    /\ req.min_line_count # None => doc.line_count >= req.min_line_count[1]
    /\ req.max_line_count # None => doc.line_count <= req.max_line_count[1]

\* C11 (as claimed): on the index of a successful build of a corpus that
\* holds an annotated document a searcher opens, and advanced_search with
\* empty text and has_annotations = True (False), its limit above the
\* corpus size, returns exactly the parsed documents whose content matches
\* (does not match) the annotation-marker detector.
C11_AnnotationFilter ==
    [][ (build_pc = "done" /\ searcher' # searcher
         /\ \E i \in 1..Len(build_docs) : build_docs[i].has_annotations) =>
          /\ searcher' = Some("open")
          /\ \A flag \in BOOLEAN :
                { r.doc_id : r \in
                    { advanced_search(StoredDocuments(whoosh_index), <<>>, Some(flag),
                                      None, None, Len(build_docs) + 1).results[i] :
                        i \in 1..Len(advanced_search(StoredDocuments(whoosh_index), <<>>,
                                                     Some(flag), None, None,
                                                     Len(build_docs) + 1).results) } }
                = { build_docs[i].doc_id :
                      i \in { j \in 1..Len(build_docs) :
                                ANNOTATION_PATTERN(build_docs[j].content) = flag } }
      ]_vars

\* A clause is supplied: a text, has_annotations, or a line_count bound.
SuppliesClause(req) ==
    \/ req.query # <<>>
    \/ req.has_annotations # None
    \/ req.min_line_count # None
    \/ req.max_line_count # None

\* C12 (as claimed): advanced_search with a limit of at least 1 and at
\* least one clause returns documents of the index that satisfy every
\* supplied clause, each once, and as many of them as the limit allows; an
\* omitted bound excludes no document, whatever its line_count.
C12_AllSuppliedClauses ==
    (Called("advanced_search") /\ request[1].limit >= 1
     /\ SuppliesClause(request[1])) =>
        /\ error = None
        /\ \A i \in 1..Len(results) :
              /\ FromIndex(results[i])
              /\ SatisfiesClauses(results[i], request[1])
        /\ \A i, j \in 1..Len(results) :
              i # j => results[i].doc_id # results[j].doc_id
        /\ Len(results) =
              Min(request[1].limit,
                  Cardinality({ i \in 1..Len(IndexDocs) :
                                  SatisfiesClauses(IndexDocs[i], request[1]) }))

\* The results whose documents pass the structural predicates of a request.
PassingPredicates(list, req) ==
    LET Passes(r) ==
            /\ req.has_annotations # None => r.has_annotations = req.has_annotations[1]
            /\ req.min_line_count # None => r.line_count >= req.min_line_count[1]
            /\ req.max_line_count # None => r.line_count <= req.max_line_count[1]
    IN  SelectSeq(list, Passes)

\* C13 (as claimed): when advanced_search has a text clause and a limit of
\* at least 1, its results are the documents that the full-text search of
\* the text ranks, without those that fail the supplied predicates, in the
\* same order, cut at limit after the predicates.
C13_FilterBeforeTruncation ==
    (Called("advanced_search") /\ request[1].query # <<>> /\ request[1].limit >= 1) =>
        LET ranking == fulltext_search(IndexDocs, request[1].query,
                                       Len(IndexDocs) + 1, FALSE).results
            passing == PassingPredicates(ranking, request[1])
        IN  /\ error = None
            /\ ResultIds(results)
                 = ResultIds(SubSeq(passing, 1, Min(request[1].limit, Len(passing))))

\* Score of the word of a query in a document of the index.
WordScore(doc, query) ==
    BM25F(TermFrequency(doc.content, Tokens(query)[1]), Len(Tokens(doc.content)),
          TotalFieldLength(IndexDocs), Len(IndexDocs))

\* C14: a full-text search that returns gives at most limit results, all the
\* matching documents when they are no more than limit, ordered by
\* non-increasing score, and no matching document left out has a higher
\* score than a returned one.
C14_FulltextRanking ==
    (SearchCalled("fulltext") /\ error = None) =>
        LET matching == { i \in 1..Len(IndexDocs) :
                            /\ Tokens(request[1].query) # <<>>
                            /\ HoldsWord(IndexDocs[i], request[1].query) }
        IN  /\ Len(results) = Min(request[1].limit, Cardinality(matching))
            /\ \A i \in 1..Len(results) :
                  /\ FromIndex(results[i])
                  /\ DocnumOf(results[i].doc_id) \in matching
                  /\ results[i].score = WordScore(results[i], request[1].query)
            /\ \A i, j \in 1..Len(results) :
                  i < j => results[i].score >= results[j].score
            /\ \A d \in matching :
                  (\A i \in 1..Len(results) : results[i].doc_id # IndexDocs[d].doc_id)
                  => \A i \in 1..Len(results) :
                        WordScore(IndexDocs[d], request[1].query) <= results[i].score

C14_Witness ==
    /\ SearchCalled("fulltext")
    /\ IndexDocs = <<DocD2, Doc1D, DocD12>>
    /\ request[1].query = <<"b", "a">>
    /\ request[1].limit = 2
    /\ ResultIds(results) = <<DocD12.doc_id, Doc1D.doc_id>>
    /\ results[1].score > results[2].score

MatchesAt(query, id, at) ==
    /\ at + Len(query) - 1 <= Len(id)
    /\ \A k \in 1..Len(query) : query[k] = "?" \/ query[k] = id[at + k - 1]

CodePoint(c) ==
    IF c = "1" THEN 49 ELSE IF c = "2" THEN 50 ELSE IF c = "D" THEN 68 ELSE 69

\* String comparison s <= t.
RECURSIVE LexLessEq(_, _)
LexLessEq(s, t) ==
    IF Len(s) = 0 THEN TRUE
    ELSE IF Len(t) = 0 THEN FALSE
    ELSE IF s[1] = t[1] THEN LexLessEq(Tail(s), Tail(t))
    ELSE CodePoint(s[1]) < CodePoint(t[1])

MatchingDocs ==
    LET Matches(doc) == regex_search(request[1].query, doc.content)
    IN  SelectSeq(IndexDocs, Matches)

\* C18: a regex search with a valid pattern returns the first
\* min(limit, number of matching documents) documents of the index, in
\* the order of the index, whose content matches, each with score 1.0
\* and no highlight; the pattern is tested on no document after the one
\* that gave the limit-th match, and on none when limit <= 0.
C18_RegexScan ==
    (SearchCalled("regex") /\ ~Contains(request[1].query, "[")) =>
        LET limit == request[1].limit
            n == IF limit <= 0 THEN 0 ELSE Min(limit, Len(MatchingDocs))
        IN  /\ error = None
            /\ results = [i \in 1..n |-> SearchResult(MatchingDocs[i], ScoreOne, None)]
            /\ docs_tested =
                  IF limit <= 0 THEN 0
                  ELSE IF Len(MatchingDocs) >= limit
                       THEN DocnumOf(MatchingDocs[limit].doc_id)
                       ELSE Len(IndexDocs)

C18_Witness ==
    /\ SearchCalled("regex")
    /\ IndexDocs = <<DocD1, DocD2, Doc1D>>
    /\ request[1].query = <<"b", ".", "a">>
    /\ request[1].limit = 1
    /\ ResultIds(results) = <<DocD2.doc_id>>
    /\ docs_tested = 2

\* C19: a search whose search_type is not fulltext, docid or regex, and a
\* regex search whose pattern does not compile, raise ValueError, return
\* no list, and read no document.
C19_InvalidQuery ==
    (Called("search")
     /\ (\/ request[1].search_type \notin {Some("fulltext"), Some("docid"), Some("regex")}
         \/ (SearchCalled("regex") /\ Contains(request[1].query, "[")))) =>
        /\ error = Some("ValueError")
        /\ results = None
        /\ docs_read = 0
        /\ docs_tested = 0

C19_Witness ==
    /\ SearchCalled("regex")
    /\ request[1].query = <<"[", "a">>
    /\ request[1].limit = 2
    /\ IndexDocs = <<DocD1, DocD2>>
    /\ error = Some("ValueError")

\* C20: get_document raises nothing; it returns the document of the
\* index whose id equals its argument when there is one, and None when
\* there is none.
C20_GetDocument ==
    Called("get_document") =>
        /\ error = None
        /\ IF \E i \in 1..Len(IndexDocs) : IndexDocs[i].doc_id = request[1].query
           THEN /\ results # None
                /\ results[1].doc_id = request[1].query
                /\ FromIndex(results[1])
           ELSE results = None

C20_Witness ==
    /\ Called("get_document")
    /\ request[1].query = <<"D">>
    /\ IndexDocs = <<DocD1, Doc1D>>
    /\ results = None

\* ---------------------------------------------- statistics and lifecycle
\* C21 (as claimed): on the index of a successful build of at least one
\* document a searcher opens, and get_statistics gives total_documents equal
\* to the number of documents of the index, documents_with_annotations
\* equal to the number of those with has_annotations, and a last_updated
\* field.
C21_Statistics ==
    [][ (build_pc = "done" /\ Len(build_docs) > 0 /\ searcher' # searcher) =>
          /\ searcher' = Some("open")
          /\ get_statistics(whoosh_index).total_documents = Len(committed.documents)
          /\ get_statistics(whoosh_index).documents_with_annotations =
                Cardinality({ i \in 1..Len(committed.documents) :
                                committed.documents[i].has_annotations = 1 })
          /\ "last_updated" \in DOMAIN get_statistics(whoosh_index)
      ]_vars

\* The latest build has committed its metadata.
ReadyMetadata ==
    /\ builds > 0
    /\ committed.index_metadata.document_count # None
    /\ committed.index_metadata.last_updated = Some(Now(builds))

\* C22 (as claimed): the committed store shows the metadata of the latest
\* build only once that build has run its optimize step with success and
\* has returned.
C22_MetadataAfterCompaction == ReadyMetadata => build_pc = "done"

\* No two rows of a documents table have the same doc_id.
UniqueIds(rows) ==
    \A i, j \in 1..Len(rows) : i # j => rows[i].doc_id # rows[j].doc_id

\* The next document of the running build has an id that is already stored.
NextIdStored ==
    /\ build_pc = "insert"
    /\ source_readable
    /\ doc_count < Len(build_docs)
    /\ \E i \in 1..Len(working.documents) :
          working.documents[i].doc_id = build_docs[doc_count + 1].doc_id

\* C24: in the committed store and in the view of the building connection
\* no two documents share an id; when the next document of a build has an
\* id that is stored (by this build or by an earlier one) the build can
\* only go on by failing, and it inserts nothing; a step of a build adds
\* rows after the committed ones and changes none of them.
C24_UniqueIds ==
    [][ /\ UniqueIds(committed'.documents)
        /\ UniqueIds(working'.documents)
        /\ (NextIdStored /\ build_vars' # build_vars) =>
              /\ build_pc' = "failed"
              /\ raised' # None
              /\ returned' = None
              /\ doc_count' = doc_count
              /\ committed' = committed
              /\ working' = committed
        /\ Len(committed'.documents) >= Len(committed.documents)
        /\ SubSeq(committed'.documents, 1, Len(committed.documents))
              = committed.documents
      ]_vars

C24_Witness ==
    /\ build_pc = "failed"
    /\ raised = Some("IntegrityError")
    /\ builds = 2
    /\ doc_count = 0
    /\ Len(base.documents) = 3
    /\ committed.documents = base.documents
    /\ working = committed

\* C26 (as claimed): when a build has failed because the transcription
\* file cannot be opened, the index location is as it was before the call:
\* after the first call on a location there is no database file and
\* get_database raises FileNotFoundError; after a later call the documents
\* and the metadata are those the store held when the call started.
C26_FailedSourceLeavesLocation ==
    (build_pc = "failed" /\ raised = Some("FileNotFoundError")) =>
        IF builds = 1
        THEN /\ ~db_file
             /\ get_database(db_file) = Some("FileNotFoundError")
        ELSE /\ committed.documents = base.documents
             /\ committed.index_metadata = base.index_metadata

\* C25 (as claimed): when no build is running and the document_count
\* metadata is present, it is the number of documents committed in the
\* store.
C25_CountMatchesStore ==
    (build_pc \in {"idle", "done", "failed"}
     /\ committed.index_metadata.document_count # None) =>
        int(committed.index_metadata.document_count[1]) = Len(committed.documents)

\* ------------------------------------------------------ front end properties
\* The web application has just served a request through get_searcher.
RequestServed == <<app_searcher, instances, served, web_error>>'
                   # <<app_searcher, instances, served, web_error>>

\* C29 (as claimed): a request whose open fails leaves app.searcher unset;
\* a request made once a build has succeeded on the index location gets a
\* searcher; and once app.searcher is set it stays the same instance, which
\* every later request gets.
C29_SearcherCache ==
    [][ /\ (RequestServed /\ web_error' # None) =>
              /\ app_searcher' = None
              /\ served' = None
        /\ (RequestServed /\ build_pc = "done") =>
              /\ web_error' = None
              /\ served' # None
              /\ app_searcher' = served'
        /\ app_searcher # None =>
              /\ app_searcher' = app_searcher
              /\ instances' = instances
              /\ RequestServed => (served' = app_searcher /\ web_error' = None)
      ]_vars

\* C30 (as claimed): the command line run with --stats on an index that
\* holds zero documents writes the statistics, writes no error and exits
\* with code 0.
C30_StatsOnEmptyIndex ==
    (exit_code # None /\ whoosh_index # None /\ IndexDocs = <<>>) =>
        /\ exit_code = Some(0)
        /\ \E i \in 1..Len(echoed) : echoed[i] = Echo("Total Documents", 0)
        /\ \A i \in 1..Len(echoed) : echoed[i].label # "Error"

\* -------------------------------------------------- more parser properties
\* C27 (as claimed): when a file has been parsed with strip_line_numbers
\* False, content_without_line_numbers of each document it yielded is the
\* content of the same document parsed with strip_line_numbers True.
C27_PropertyEqualsStripped ==
    (parse_pc = "done" /\ ~strip_line_numbers) =>
        LET stripped == parse(FileLines(corpus, final_newline), TRUE)
        IN  /\ Len(stripped) = Len(yielded)
            /\ \A i \in 1..Len(yielded) :
                  content_without_line_numbers(yielded[i].content) = stripped[i].content

\* Index of the first header line of the file, one past its end when it
\* has none.
FirstHeader ==
    IF \E i \in 1..Len(corpus) : IsHeaderLine(corpus[i])
    THEN CHOOSE i \in 1..Len(corpus) :
            /\ IsHeaderLine(corpus[i])
            /\ \A j \in 1..(i - 1) : ~IsHeaderLine(corpus[j])
    ELSE Len(corpus) + 1

\* C28: a step of the parser on a line before the first header opens no
\* document, gathers no line and yields nothing; and the documents of a
\* parsed file, with their contents and line counts, are those of the file
\* without the lines before its first header.
C28_PreambleDropped ==
    [][ /\ (pos' = pos + 1 /\ \A i \in 1..pos : ~IsHeaderLine(corpus[i])) =>
              /\ current_doc_id' = None
              /\ current_lines' = <<>>
              /\ yielded' = <<>>
        /\ (parse_pc = "loop" /\ parse_pc' = "done") =>
              yielded' = parse(FileLines(Tail_from(corpus, FirstHeader), final_newline),
                               strip_line_numbers)
      ]_vars

C28_Witness ==
    /\ parse_pc = "done"
    /\ Len(corpus) = 3
    /\ corpus[1] = LineTrailingText
    /\ corpus[2] = LineHeaderA
    /\ corpus[3] = LineNumbered
    /\ Len(yielded) = 1
    /\ yielded[1].doc_id = <<"A">>
    /\ yielded[1].line_count = 1

\* --------------------------------------------------------- store properties
\* The tokens of a content, as a set.
TokenSet(content) ==
    { unicode61(content)[k] : k \in 1..Len(unicode61(content)) }

\* The postings of a full-text index: the pairs of a token and a rowid.
Postings(fts) ==
    UNION { { <<t, fts[i].rowid>> : t \in TokenSet(fts[i].content) } :
              i \in 1..Len(fts) }

\* C23 (as claimed): in the committed store the postings of the full-text
\* index are exactly those of the tokens of the rows of documents; a match
\* on a token of a stored document succeeds and returns that document with
\* its stored content; and a match on any token returns only stored
\* documents that hold the token, so none that was deleted.
C23_PostingsFollowDocuments ==
    /\ Postings(committed.documents_fts) = Postings(committed.documents)
    /\ \A i \in 1..Len(committed.documents) :
          \A t \in TokenSet(committed.documents[i].content) :
             /\ fts_match(committed, t).error = None
             /\ \E n \in 1..Len(fts_match(committed, t).rows) :
                   /\ fts_match(committed, t).rows[n].doc_id
                        = committed.documents[i].doc_id
                   /\ fts_match(committed, t).rows[n].content
                        = committed.documents[i].content
    /\ \A t \in StoreTokens :
          /\ fts_match(committed, t).error = None
          /\ \A n \in 1..Len(fts_match(committed, t).rows) :
                t \in TokenSet(fts_match(committed, t).rows[n].content)

====
